---- MODULE Spec2Model ----
(***************************************************************************)
(* Verification model of the Delphes -> FCC-EDM conversion of              *)
(* SimDelphesInterface/src/DelphesSimulation.cpp:                          *)
(*   - ConvertMCParticles : truth particles and their shared vertices      *)
(*   - ConvertParticles   : electrons and their relation to MC particles   *)
(*   - ConvertPhotons     : photons and their (cascade) relation to MC     *)
(* Indices are the C++ 0-based indices; TLA+ sequences are 1-based, so     *)
(* element i of an array a is At(a, i) == a[i + 1].  -1 is the C++ "no     *)
(* index" value (M1, D1, the vertex map) and stands for an unavailable     *)
(* handle (no StartVertex / EndVertex / Rec / Sim set).                    *)
(***************************************************************************)
EXTENDS Integers, Sequences, FiniteSets

\* Largest number of Delphes candidates in allParticles (one event).
MaxN == 3
\* Largest width of a mother range [M1,M2] or daughter range [D1,D2].
MaxSpan == 2
\* Largest number of truth particles seen by the truth-match passes.
MaxMC == 1
\* Largest number of electrons / photons in one output array.
MaxObj == 2
\* Largest number of entries of the GetCandidates() array of an electron or
\* photon (first level).
MaxRefs == 2
\* Largest number of entries of the GetCandidates() array of a referenced
\* candidate (second level).
MaxRefs2 == 1
\* Largest number of events execute() processes.
MaxEvents == 2
\* Largest number of tools of PapasAlg (m_tools.size()).
MaxTools == 3
\* Largest number of PapasAlg::execute calls.
MaxPapasEvents == 2

VARIABLES
  pc,                \* which conversion loop of execute() is running
  j,                 \* the loop variable j of the running conversion
  allPart,           \* m_allPartOutArray: the Delphes candidates
  vecVtx,            \* m_vecPartProdVtxIDDecVtxID: (first, second) per candidate
  genParticles,      \* fcc::MCParticleCollection
  genVertices,       \* fcc::GenVertexCollection
  nElectrons,        \* m_electronOutArray->GetEntries()
  recElectrons,      \* fcc::ParticleCollection of the electrons
  recElectronsToMC,  \* association collection of the electrons
  nPhotons,          \* m_photonOutArray->GetEntries()
  recCand,           \* cand of ConvertParticles / ConvertPhotons: the candidate being converted
  recPhotons,        \* fcc::ParticleCollection of the photons
  recPhotonsToMC,    \* association collection of the photons
  atCalls,           \* every colMCParticles->at(idx) call: [idx, size at the call]
  eventCounter,      \* m_eventCounter
  m_eventno,         \* PapasAlg::m_eventno
  nTools,            \* m_tools.size()
  ppc,               \* where PapasAlg::execute is
  iTool,             \* position of the running loop over m_tools
  peventNo,          \* the event number given to pevent
  toolCalls,         \* the tool calls of the execute call: [op, tool]
  thrown,            \* what a tool call of the execute call threw
  status             \* the StatusCode the execute call returned

\* The state of PapasAlg.
papasVars ==
  <<m_eventno, nTools, ppc, iTool, peventNo, toolCalls, thrown, status>>

\* The state of DelphesSimulation.
delphesVars ==
  <<pc, j, allPart, vecVtx, genParticles, genVertices, nElectrons,
    recElectrons, recElectronsToMC, nPhotons, recCand, recPhotons,
    recPhotonsToMC, atCalls, eventCounter>>

vars == <<delphesVars, papasVars>>

\* PapasAlg after its constructor and initialize(), with n tools.
PapasInit(n) ==
  /\ m_eventno = 0
  /\ nTools = n
  /\ ppc = "idle"
  /\ iTool = 0
  /\ peventNo = -1
  /\ toolCalls = <<>>
  /\ thrown = "none"
  /\ status = "none"

\* TObjArray::At(i) / std::vector::operator[](i) / Collection::at(i)
At(a, i) == a[i + 1]

\* Candidate* cand = nullptr: no electron or photon candidate is being
\* converted.
NullCand == [Px |-> -1, refs |-> <<>>]

-----------------------------------------------------------------------------
(* Inputs: the candidate array produced by the Delphes reader.             *)

\* Position.X() and Position.T() of candidate i: every candidate sits at its
\* own space-time point, so that two vertices built from different
\* candidates can be told apart.
CandX(i) == 10 + i
CandT(i) == 20 + i

\* A mother or daughter range: none (-1,-1) or an inclusive range in [0,n).
Ranges(n) ==
  {<<-1, -1>>} \cup
  {r \in (0 .. n - 1) \X (0 .. n - 1) : r[1] <= r[2] /\ r[2] - r[1] < MaxSpan}

Candidates(n) ==
  {[i \in 1 .. n |-> [M1 |-> m[i][1], M2 |-> m[i][2],
                      D1 |-> d[i][1], D2 |-> d[i][2],
                      X |-> CandX(i - 1), T |-> CandT(i - 1)]] :
     m \in [1 .. n -> Ranges(n)], d \in [1 .. n -> Ranges(n)]}

\* A candidate without mothers and daughters.
PlainCandidate(i) ==
  [M1 |-> -1, M2 |-> -1, D1 |-> -1, D2 |-> -1, X |-> CandX(i), T |-> CandT(i)]

-----------------------------------------------------------------------------
(* ConvertMCParticles                                                      *)

\* The vertex map after its initialisation loop.
InitVecVtx(n) == [i \in 1 .. n |-> [first |-> -1, second |-> -1]]

\* The candidate the loop body converts.
CandAtFirst(arr, k) == At(arr, 0)
CandAt(arr, k) == At(arr, k)

\* Status bits of a MC particle, decided on the swapped order of the tests.
MCBitsDaughtersFirst(cand) ==
  IF cand.D1 = -1 THEN "Stable"
  ELSE IF cand.M1 = -1 THEN "Beam"
  ELSE "Decayed"
\* Status bits of a MC particle.
MCBits(cand) ==
  IF cand.M1 = -1 THEN "Beam"
  ELSE IF cand.D1 = -1 THEN "Stable"
  ELSE "Decayed"

\* colMCParticles->create() followed by particle.Core(*barePart): the new
\* particle has no start and no end vertex yet.
NewMCParticle(cand) ==
  [X |-> cand.X, Bits |-> MCBits(cand), StartVertex |-> -1, EndVertex |-> -1]

\* The loop over the mothers, writing the index after k.
MotherLoopNext(vec, cand, k) ==
  [i \in 1 .. Len(vec) |->
     IF (i - 1) \in cand.M1 .. cand.M2 /\ vec[i].second = -1
       THEN [vec[i] EXCEPT !.second = k + 1]
       ELSE vec[i]]
\* The loop over the mothers: the decay-vertex slot of every mother that has
\* none yet is set to k.
MotherLoop(vec, cand, k) ==
  [i \in 1 .. Len(vec) |->
     IF (i - 1) \in cand.M1 .. cand.M2 /\ vec[i].second = -1
       THEN [vec[i] EXCEPT !.second = k]
       ELSE vec[i]]

\* The loop over the daughters: tests the daughter's second slot and writes
\* its first slot.
DaughterLoop(vec, cand, k) ==
  [i \in 1 .. Len(vec) |->
     IF (i - 1) \in cand.D1 .. cand.D2 /\ (i - 1) >= 0 /\ vec[i].second = -1
       THEN [vec[i] EXCEPT !.first = k]
       ELSE vec[i]]

\* The vertex created as production vertex of cand: its own position and time.
NewProductionVertex(cand) == [X |-> cand.X, Ctau |-> cand.T]

\* The vertex created as decay vertex of cand: the position of its first
\* daughter, daughter = Input->At(cand->D1), and the time of cand itself.
NewDecayVertex(arr, cand) == [X |-> At(arr, cand.D1).X, Ctau |-> cand.T]

\* The production vertex that leaves a created vertex unattached.
ProductionVertexDetached(cand, id, parts, verts) ==
  IF cand.M1 = -1 THEN -1
  ELSE IF id # -1 THEN At(parts, id).EndVertex
  ELSE -1
\* The production vertex taken from the slot whatever the mother range is.
ProductionVertexFromSlot(cand, id, parts, verts) ==
  IF id # -1 THEN At(parts, id).EndVertex
  ELSE IF cand.M1 = -1 THEN -1
  ELSE Len(verts)
\* The handle given to particle.StartVertex(): none without mothers, the end
\* vertex of particle id when the slot holds id, else the vertex created at
\* the end of verts.
ProductionVertex(cand, id, parts, verts) ==
  IF cand.M1 = -1 THEN -1
  ELSE IF id # -1 THEN At(parts, id).EndVertex
  ELSE Len(verts)

\* The handle given to particle.EndVertex(): none without daughters, the
\* start vertex of particle id when the slot holds id, else the vertex
\* created at the end of verts.
DecayVertex(cand, id, parts, verts) ==
  IF cand.D1 = -1 THEN -1
  ELSE IF id # -1 THEN At(parts, id).StartVertex
  ELSE Len(verts)

\* One iteration of the loop over the candidates.
ConvertMCParticles ==
  /\ pc = "mc"
  /\ j < Len(allPart)
  /\ LET cand == CandAt(allPart, j)
         idPartStartVertex == At(vecVtx, j).first
         idPartEndVertex == At(vecVtx, j).second
         parts0 == Append(genParticles, NewMCParticle(cand))
         \* production vertex
         reuseStart == cand.M1 # -1 /\ idPartStartVertex # -1
         newStart == cand.M1 # -1 /\ idPartStartVertex = -1
         verts1 == IF newStart
                     THEN Append(genVertices, NewProductionVertex(cand))
                     ELSE genVertices
         startV == ProductionVertex(cand, idPartStartVertex, parts0, genVertices)
         parts1 == [parts0 EXCEPT ![j + 1].StartVertex = startV]
         vec1 == IF cand.M1 # -1 THEN MotherLoop(vecVtx, cand, j) ELSE vecVtx
         \* decay vertex
         reuseEnd == cand.D1 # -1 /\ idPartEndVertex # -1
         newEnd == cand.D1 # -1 /\ idPartEndVertex = -1
         verts2 == IF newEnd
                     THEN Append(verts1, NewDecayVertex(allPart, cand))
                     ELSE verts1
         endV == DecayVertex(cand, idPartEndVertex, parts1, verts1)
         parts2 == [parts1 EXCEPT ![j + 1].EndVertex = endV]
         vec2 == IF cand.D1 # -1 THEN DaughterLoop(vec1, cand, j) ELSE vec1
         calls == (IF reuseStart
                     THEN {[idx |-> idPartStartVertex, size |-> Len(parts0)]}
                     ELSE {})
                  \cup
                  (IF reuseEnd
                     THEN {[idx |-> idPartEndVertex, size |-> Len(parts0)]}
                     ELSE {})
     IN /\ genParticles' = parts2
        /\ genVertices' = verts2
        /\ vecVtx' = vec2
        /\ atCalls' = atCalls \cup calls
  /\ j' = j + 1
  /\ UNCHANGED <<pc, allPart, nElectrons, recElectrons, recElectronsToMC,
                 nPhotons, recCand, recPhotons, recPhotonsToMC, eventCounter,
                 papasVars>>

\* The state when ConvertMCParticles enters its loop over the candidates.
InitMC ==
  /\ pc = "mc"
  /\ j = 0
  /\ \E n \in 0 .. MaxN : allPart \in Candidates(n)
  /\ vecVtx = InitVecVtx(Len(allPart))
  /\ genParticles = <<>>
  /\ genVertices = <<>>
  /\ nElectrons = 0
  /\ recElectrons = <<>>
  /\ recElectronsToMC = <<>>
  /\ nPhotons = 0
  /\ recCand = NullCand
  /\ recPhotons = <<>>
  /\ recPhotonsToMC = <<>>
  /\ atCalls = {}
  /\ eventCounter = 1
  /\ PapasInit(0)

NextMC == ConvertMCParticles

SpecMC == InitMC /\ [][NextMC]_vars

\* ConvertMCParticles has left its loop.
MCDone == pc = "mc" /\ j = Len(allPart)

-----------------------------------------------------------------------------
(* Inputs of the truth-match passes: the electron and photon arrays.  Every *)
(* entry of a GetCandidates() array is a candidate with a unique id (the    *)
(* factory numbers candidates from 1) and its own GetCandidates() array.    *)

\* The unique ids in an event with n truth particles: the ids 1..n of the
\* truth particles and one id above them, which stands for the candidates
\* created later (the code only compares an id with n).
UniqueIds(n) == 1 .. n + 1

\* All sequences over S of length at most k.
SeqUpTo(S, k) == UNION {[1 .. l -> S] : l \in 0 .. k}

\* A referenced candidate: truth particles (unique id <= n) reference
\* nothing, the later candidates reference up to MaxRefs2 candidates.
RefCandidates(n) ==
  {[uid |-> u, cands |-> <<>>] : u \in 1 .. n} \cup
  {[uid |-> u, cands |-> c] :
     u \in UniqueIds(n) \ (1 .. n), c \in SeqUpTo(UniqueIds(n), MaxRefs2)}

\* Momentum.Px() of the reconstructed candidate at position i of its array.
RecPx(i) == 30 + i

\* The candidates that can sit at position i of the electron or photon array
\* of an event with n truth particles.
RecCandidates(n, i) ==
  {[Px |-> RecPx(i), refs |-> r] : r \in SeqUpTo(RefCandidates(n), MaxRefs)}

-----------------------------------------------------------------------------
(* ConvertParticles and ConvertPhotons                                     *)

\* GetUniqueID()-1: "use C numbering from 0".
UniqueIdToIndex(uid) == uid - 1

\* idRefMCPart<colMCParticles->size(), index<nMCParticles
IsMCIndexInclusive(index, nMCParticles) == index <= nMCParticles
IsMCIndexShort(index, nMCParticles) == index < nMCParticles - 1
IsMCIndex(index, nMCParticles) == index < nMCParticles

\* The referenced candidate ConvertParticles looks at: GetCandidates()->At(0).
LastRefCand(refs) == At(refs, Len(refs) - 1)
RefCand(refs) == At(refs, 0)

\* Bits of a value-initialised fcc::BareParticle (new fcc::BareParticle())
\* that no branch assigned.
ZeroBits == "ZeroInitialised"

\* ascColParticlesToMC->create(): a relation with neither Rec nor Sim set.
NewRelation == [Rec |-> -1, Sim |-> -1]

\* The body of the loop of ConvertParticles over the electrons.  The
\* diagnostic at its end reads relation.Rec().Core() and relation.Sim().Core()
\* without an isAvailable() test: for an unmatched electron neither handle
\* was set, the read goes through an unavailable handle, and the pass either
\* goes on with whatever was read or the process is stopped there.
ConvertParticles ==
  /\ pc = "electrons"
  /\ recCand = NullCand
  /\ j < nElectrons
  /\ \E c \in RecCandidates(Len(genParticles), j) : recCand' = c
  /\ LET particle == Len(recElectrons)
         hasRef == Len(recCand'.refs) > 0
         idRefMCPart == IF hasRef THEN UniqueIdToIndex(RefCand(recCand'.refs).uid)
                        ELSE -1
         matched == hasRef /\ IsMCIndex(idRefMCPart, Len(genParticles))
     IN /\ recElectrons' =
             Append(recElectrons,
                    [Px |-> recCand'.Px,
                     Bits |-> IF matched THEN "Matched" ELSE "Unmatched"])
        /\ recElectronsToMC' =
             Append(recElectronsToMC,
                    IF matched THEN [Rec |-> particle, Sim |-> idRefMCPart]
                    ELSE NewRelation)
        /\ atCalls' =
             IF matched
               THEN atCalls \cup {[idx |-> idRefMCPart, size |-> Len(genParticles)]}
               ELSE atCalls
        /\ pc' \in IF matched THEN {"electrons"} ELSE {"electrons", "aborted"}
  /\ UNCHANGED <<j, allPart, vecVtx, genParticles, genVertices, nElectrons,
                 nPhotons, recPhotons, recPhotonsToMC, eventCounter,
                 papasVars>>

\* The number of entries of c that are MC indices, from entry l on.
RECURSIVE CountMC(_, _, _)
CountMC(c, l, nMCParticles) ==
  IF l >= Len(c) THEN 0
  ELSE (IF IsMCIndex(UniqueIdToIndex(At(c, l)), nMCParticles) THEN 1 ELSE 0)
       + CountMC(c, l + 1, nMCParticles)

\* nRefParticles after the counting loop, from entry k on.
RECURSIVE NRefParticles(_, _, _)
NRefParticles(refs, k, nMCParticles) ==
  IF k >= Len(refs) THEN 0
  ELSE (IF IsMCIndex(UniqueIdToIndex(At(refs, k).uid), nMCParticles) THEN 1 ELSE 0)
       + NRefParticles(refs, k + 1, nMCParticles)

\* nRefInCascade after the counting loop, from entry k on.
RECURSIVE NRefInCascade(_, _, _)
NRefInCascade(refs, k, nMCParticles) ==
  IF k >= Len(refs) THEN 0
  ELSE (IF IsMCIndex(UniqueIdToIndex(At(refs, k).uid), nMCParticles) THEN 0
        ELSE CountMC(At(refs, k).cands, 0, nMCParticles))
       + NRefInCascade(refs, k + 1, nMCParticles)

\* The bits of a photon, with the test of the cascade count inverted.
PhotonBitsCascadeInverted(nRefParticles, nRefInCascade) ==
  IF (nRefParticles + nRefInCascade) # 1 THEN "Unmatched"
  ELSE IF nRefInCascade = 0 THEN "MatchInCascade"
  ELSE ZeroBits
\* The bits of a photon.
PhotonBits(nRefParticles, nRefInCascade) ==
  IF (nRefParticles + nRefInCascade) # 1 THEN "Unmatched"
  ELSE IF nRefInCascade # 0 THEN "MatchInCascade"
  ELSE ZeroBits

\* The MC indices among the entries of c from entry l on, in loop order.
RECURSIVE CascadeHits(_, _, _)
CascadeHits(c, l, nMCParticles) ==
  IF l >= Len(c) THEN <<>>
  ELSE (IF IsMCIndex(UniqueIdToIndex(At(c, l)), nMCParticles)
          THEN <<UniqueIdToIndex(At(c, l))>> ELSE <<>>)
       \o CascadeHits(c, l + 1, nMCParticles)

\* The successive values the second loop of ConvertPhotons gives indexMCPart
\* (each followed by relation.Rec(particle), relation.Sim(at(indexMCPart))).
RECURSIVE RelationHits(_, _, _)
RelationHits(refs, k, nMCParticles) ==
  IF k >= Len(refs) THEN <<>>
  ELSE (IF IsMCIndex(UniqueIdToIndex(At(refs, k).uid), nMCParticles)
          THEN <<UniqueIdToIndex(At(refs, k).uid)>>
          ELSE CascadeHits(At(refs, k).cands, 0, nMCParticles))
       \o RelationHits(refs, k + 1, nMCParticles)

\* The body of the loop of ConvertPhotons over the photons.
ConvertPhotons ==
  /\ pc = "photons"
  /\ recCand = NullCand
  /\ j < nPhotons
  /\ \E c \in RecCandidates(Len(genParticles), j) : recCand' = c
  /\ LET particle == Len(recPhotons)
         nMCParticles == Len(genParticles)
         nRefParticles == NRefParticles(recCand'.refs, 0, nMCParticles)
         nRefInCascade == NRefInCascade(recCand'.refs, 0, nMCParticles)
         hits == RelationHits(recCand'.refs, 0, nMCParticles)
     IN /\ recPhotons' =
             Append(recPhotons,
                    [Px |-> recCand'.Px,
                     Bits |-> PhotonBits(nRefParticles, nRefInCascade)])
        /\ recPhotonsToMC' =
             Append(recPhotonsToMC,
                    IF hits = <<>> THEN NewRelation
                    ELSE [Rec |-> particle, Sim |-> hits[Len(hits)]])
        /\ atCalls' =
             atCalls \cup
             {[idx |-> hits[h], size |-> nMCParticles] : h \in 1 .. Len(hits)}
  /\ UNCHANGED <<pc, j, allPart, vecVtx, genParticles, genVertices, nElectrons,
                 recElectrons, recElectronsToMC, nPhotons, eventCounter,
                 papasVars>>

\* The end of an iteration of either loop: j++, the objects of the body go
\* out of scope.
LoopNext ==
  /\ pc \in {"electrons", "photons"}
  /\ recCand # NullCand
  /\ j' = j + 1
  /\ recCand' = NullCand
  /\ UNCHANGED <<pc, allPart, vecVtx, genParticles, genVertices, nElectrons,
                 recElectrons, recElectronsToMC, nPhotons, recPhotons,
                 recPhotonsToMC, atCalls, eventCounter,
                 papasVars>>

\* execute(): ConvertParticles has returned, ConvertPhotons is called.
ElectronsDone ==
  /\ pc = "electrons"
  /\ recCand = NullCand
  /\ j = nElectrons
  /\ pc' = "photons"
  /\ j' = 0
  /\ recCand' = NullCand
  /\ UNCHANGED <<allPart, vecVtx, genParticles, genVertices, nElectrons,
                 recElectrons, recElectronsToMC, nPhotons, recPhotons,
                 recPhotonsToMC, atCalls, eventCounter,
                 papasVars>>

\* execute(): ConvertPhotons has returned.
PhotonsDone ==
  /\ pc = "photons"
  /\ recCand = NullCand
  /\ j = nPhotons
  /\ pc' = "done"
  /\ j' = 0
  /\ recCand' = NullCand
  /\ UNCHANGED <<allPart, vecVtx, genParticles, genVertices, nElectrons,
                 recElectrons, recElectronsToMC, nPhotons, recPhotons,
                 recPhotonsToMC, atCalls, eventCounter,
                 papasVars>>

\* The state when execute() calls ConvertParticles: the n truth particles
\* are converted (here: particles without mothers and daughters), the
\* electron and photon arrays are imported and the output collections are
\* new.  An event has electrons or photons; the candidate at a position of
\* an array is fixed when the loop reads it.
InitRec ==
  /\ pc = "electrons"
  /\ j = 0
  /\ recCand = NullCand
  /\ \E n \in 0 .. MaxMC :
       allPart = [i \in 1 .. n |-> PlainCandidate(i - 1)]
  /\ \/ nElectrons \in 0 .. MaxObj /\ nPhotons = 0
     \/ nElectrons = 0 /\ nPhotons \in 0 .. MaxObj
  /\ vecVtx = InitVecVtx(Len(allPart))
  /\ genParticles = [i \in 1 .. Len(allPart) |-> NewMCParticle(allPart[i])]
  /\ genVertices = <<>>
  /\ recElectrons = <<>>
  /\ recElectronsToMC = <<>>
  /\ recPhotons = <<>>
  /\ recPhotonsToMC = <<>>
  /\ atCalls = {}
  /\ eventCounter = 1
  /\ PapasInit(0)

NextRec ==
  ConvertParticles \/ ConvertPhotons \/ LoopNext \/ ElectronsDone \/ PhotonsDone

SpecRec == InitRec /\ [][NextRec]_vars

-----------------------------------------------------------------------------
(* DelphesSimulation::execute(), event after event                         *)

\* The truth particles of the event before, kept.
KeptMCParticleCollection == genParticles
\* new fcc::MCParticleCollection()
NewMCParticleCollection == <<>>

\* execute() up to the loop of ConvertMCParticles: an event is read into
\* allParticles, the event counter advances, Delphes fills the electron and
\* photon arrays, the output collections are created and ConvertMCParticles
\* sets up its vertex map.
ReadEvent ==
  /\ pc = "idle"
  /\ eventCounter < MaxEvents
  /\ eventCounter' = eventCounter + 1
  /\ \E n \in 0 .. MaxMC : allPart' \in Candidates(n)
  /\ nElectrons' \in 0 .. MaxObj
  /\ nPhotons' \in 0 .. MaxObj
  /\ genParticles' = NewMCParticleCollection
  /\ genVertices' = <<>>
  /\ recElectrons' = <<>>
  /\ recElectronsToMC' = <<>>
  /\ recPhotons' = <<>>
  /\ recPhotonsToMC' = <<>>
  /\ vecVtx' = InitVecVtx(Len(allPart'))
  /\ atCalls' = {}
  /\ recCand' = NullCand
  /\ pc' = "mc"
  /\ j' = 0
  /\ UNCHANGED papasVars

\* execute() returns before any conversion: the input file is at its end
\* (SUCCESS) or the reader has no event ready (FAILURE).
NoEvent ==
  /\ pc = "idle"
  /\ pc' \in {"eof", "failed"}
  /\ UNCHANGED <<j, allPart, vecVtx, genParticles, genVertices, nElectrons,
                 recElectrons, recElectronsToMC, nPhotons, recCand, recPhotons,
                 recPhotonsToMC, atCalls, eventCounter,
                 papasVars>>

\* ConvertMCParticles returns (its vertex map goes out of scope) and
\* execute() calls ConvertParticles.
MCParticlesDone ==
  /\ pc = "mc"
  /\ j = Len(allPart)
  /\ pc' = "electrons"
  /\ j' = 0
  /\ vecVtx' = <<>>
  /\ UNCHANGED <<allPart, genParticles, genVertices, nElectrons, recElectrons,
                 recElectronsToMC, nPhotons, recCand, recPhotons,
                 recPhotonsToMC, atCalls, eventCounter,
                 papasVars>>

\* The end of execute(): the collections are put into the data store and
\* the Delphes arrays are cleared for the next event.
EndEvent ==
  /\ pc = "done"
  /\ pc' = "idle"
  /\ allPart' = <<>>
  /\ nElectrons' = 0
  /\ nPhotons' = 0
  /\ UNCHANGED <<j, vecVtx, genParticles, genVertices, recElectrons,
                 recElectronsToMC, recCand, recPhotons, recPhotonsToMC,
                 atCalls, eventCounter,
                 papasVars>>

\* DelphesSimulation after initialize().
DelphesInit ==
  /\ pc = "idle"
  /\ j = 0
  /\ eventCounter = 0
  /\ allPart = <<>>
  /\ vecVtx = <<>>
  /\ genParticles = <<>>
  /\ genVertices = <<>>
  /\ nElectrons = 0
  /\ recElectrons = <<>>
  /\ recElectronsToMC = <<>>
  /\ nPhotons = 0
  /\ recCand = NullCand
  /\ recPhotons = <<>>
  /\ recPhotonsToMC = <<>>
  /\ atCalls = {}

\* The state after initialize().
InitExec == DelphesInit /\ PapasInit(0)

NextExec ==
  \/ ReadEvent
  \/ NoEvent
  \/ ConvertMCParticles
  \/ MCParticlesDone
  \/ ConvertParticles
  \/ ConvertPhotons
  \/ LoopNext
  \/ ElectronsDone
  \/ PhotonsDone
  \/ EndEvent

SpecExec == InitExec /\ [][NextExec]_vars

-----------------------------------------------------------------------------
(* SimPapas/src/PapasAlg.cpp: PapasAlg::execute().  A tool is an external   *)
(* collaborator: each call of one of its methods returns or throws.         *)

\* What a tool call does: it returns, or throws a std::string, a
\* std::exception (or a class derived from it), or anything else.
Outcomes == {"return", "string", "exception", "other"}

\* The catch clauses with their results exchanged.
CatchStatusSwapped(kind) ==
  IF kind = "string" THEN "FAILURE"
  ELSE IF kind = "exception" THEN "SUCCESS"
  ELSE "none"
\* The catch clauses: SUCCESS for a std::string, FAILURE for a
\* std::exception; nothing is returned for what no clause catches.
CatchStatus(kind) ==
  IF kind = "string" THEN "SUCCESS"
  ELSE IF kind = "exception" THEN "FAILURE"
  ELSE "none"

\* Where execute() is after a throw: back at its caller with a status, or
\* left by the exception that no clause caught.
AfterThrow(kind) == IF kind \in {"string", "exception"} THEN "idle" ELSE "propagated"

\* One call tool->op() inside the try block, on the tool at iTool.
CallTool(op) ==
  /\ iTool < nTools
  /\ toolCalls' = Append(toolCalls, [op |-> op, tool |-> iTool])
  /\ \E outcome \in Outcomes :
       IF outcome = "return"
         THEN /\ iTool' = iTool + 1
              /\ UNCHANGED <<ppc, thrown, status>>
         ELSE /\ thrown' = outcome
              /\ status' = CatchStatus(outcome)
              /\ ppc' = AfterThrow(outcome)
              /\ UNCHANGED iTool
  /\ UNCHANGED <<m_eventno, nTools, peventNo, delphesVars>>

\* The end of one of the first two loops over the tools.
LoopEnd(to) ==
  /\ iTool = nTools
  /\ ppc' = to
  /\ iTool' = 0
  /\ UNCHANGED <<m_eventno, nTools, peventNo, toolCalls, thrown, status,
                 delphesVars>>

\* execute() up to the try block: the event is given the event number,
\* which then advances.
PapasExecute ==
  /\ ppc = "idle"
  /\ m_eventno < MaxPapasEvents
  /\ peventNo' = m_eventno
  /\ m_eventno' = m_eventno + 1
  /\ toolCalls' = <<>>
  /\ thrown' = "none"
  /\ status' = "none"
  /\ ppc' = "create"
  /\ iTool' = 0
  /\ UNCHANGED <<nTools, delphesVars>>

CreateOutputStructures == ppc = "create" /\ CallTool("createOutputStructures")

CreateLoopEnd == ppc = "create" /\ LoopEnd("run")

Run == ppc = "run" /\ CallTool("run")

RunLoopEnd == ppc = "run" /\ LoopEnd("clear")

Clear == ppc = "clear" /\ CallTool("clear")

\* The last loop has ended: return StatusCode::SUCCESS.
PapasExecuteEnd ==
  /\ ppc = "clear"
  /\ iTool = nTools
  /\ ppc' = "idle"
  /\ status' = "SUCCESS"
  /\ UNCHANGED <<m_eventno, nTools, iTool, peventNo, toolCalls, thrown,
                 delphesVars>>

InitPapas == DelphesInit /\ \E n \in 0 .. MaxTools : PapasInit(n)

NextPapas ==
  \/ PapasExecute
  \/ CreateOutputStructures
  \/ CreateLoopEnd
  \/ Run
  \/ RunLoopEnd
  \/ Clear
  \/ PapasExecuteEnd

SpecPapas == InitPapas /\ [][NextPapas]_vars

-----------------------------------------------------------------------------
(* Properties of ConvertMCParticles                                        *)

InRange(i, lo, hi) == lo # -1 /\ lo <= i /\ i <= hi
IsMotherOf(m, d) == InRange(m, At(allPart, d).M1, At(allPart, d).M2)
IsDaughterOf(d, m) == InRange(d, At(allPart, m).D1, At(allPart, m).D2)
Indices == 0 .. Len(allPart) - 1

\* The ancestors of d reached in at most k steps along the mother ranges.
RECURSIVE Ancestors(_, _)
Ancestors(d, k) ==
  IF k = 0 THEN {}
  ELSE LET mothers == {m \in Indices : IsMotherOf(m, d)}
       IN mothers \cup UNION {Ancestors(m, k - 1) : m \in mothers}

\* The ranges describe one genealogy, as the vertices of a generator event
\* do: d is a daughter of m exactly when m is a mother of d, the mothers of
\* one candidate all have the same daughter range and the daughters of one
\* candidate all have the same mother range (one vertex joins them), and no
\* candidate is its own ancestor.
ConsistentGenealogy ==
  /\ \A m, d \in Indices : IsMotherOf(m, d) <=> IsDaughterOf(d, m)
  /\ \A m, d, o \in Indices :
       /\ (IsMotherOf(m, d) /\ IsMotherOf(o, d)) =>
            /\ At(allPart, m).D1 = At(allPart, o).D1
            /\ At(allPart, m).D2 = At(allPart, o).D2
       /\ (IsDaughterOf(d, m) /\ IsDaughterOf(o, m)) =>
            /\ At(allPart, d).M1 = At(allPart, o).M1
            /\ At(allPart, d).M2 = At(allPart, o).M2
  /\ \A d \in Indices : d \notin Ancestors(d, Len(allPart))

SameMothers(p1, p2) ==
  /\ At(allPart, p1).M1 # -1
  /\ At(allPart, p1).M1 = At(allPart, p2).M1
  /\ At(allPart, p1).M2 = At(allPart, p2).M2

\* C1: after ConvertMCParticles, any two particles with identical non-empty
\* mother ranges have the same vertex object as start vertex, whether the
\* mother comes before or after them in the array.  (Stated here for the
\* consistent genealogies only; the code breaks it already there.)
C1_SiblingsShareStartVertex ==
  (MCDone /\ ConsistentGenealogy) =>
    \A p1, p2 \in Indices :
      SameMothers(p1, p2) =>
        At(genParticles, p1).StartVertex = At(genParticles, p2).StartVertex

\* C2: after ConvertMCParticles, whenever d lies in m's daughter range and m
\* lies in d's mother range, the end vertex of m and the start vertex of d
\* are the same vertex object.
C2_MotherEndIsDaughterStart ==
  (MCDone /\ ConsistentGenealogy) =>
    \A m, d \in Indices :
      (IsDaughterOf(d, m) /\ IsMotherOf(m, d)) =>
        At(genParticles, m).EndVertex = At(genParticles, d).StartVertex

\* C9: every emitted MC particle carries exactly one of Beam, Stable,
\* Decayed: Beam when it has no mother range (with or without daughters),
\* else Stable when it has no daughter range, else Decayed.
C9_StatusBitsFirstMatch ==
  pc = "mc" =>
    \A i \in 0 .. Len(genParticles) - 1 :
      LET c == At(allPart, i)
          b == At(genParticles, i).Bits
      IN /\ b \in {"Beam", "Stable", "Decayed"}
         /\ (c.M1 = -1) => b = "Beam"
         /\ (c.M1 # -1 /\ c.D1 = -1) => b = "Stable"
         /\ (c.M1 # -1 /\ c.D1 # -1) => b = "Decayed"

\* A finished pass that emitted a Beam particle with daughters, a Beam
\* particle without daughters, a Stable and a Decayed particle.
C9_Witness ==
  /\ MCDone
  /\ \E a, b, c \in Indices :
       /\ At(allPart, a).M1 = -1 /\ At(allPart, a).D1 # -1
       /\ At(genParticles, a).Bits = "Beam"
       /\ At(allPart, b).M1 # -1 /\ At(allPart, b).D1 = -1
       /\ At(genParticles, b).Bits = "Stable"
       /\ At(allPart, c).M1 # -1 /\ At(allPart, c).D1 # -1
       /\ At(genParticles, c).Bits = "Decayed"

\* C10: one MC particle per candidate, created once and in increasing index
\* order: when the loop is at j the collection holds exactly the particles
\* of candidates 0..j-1, particle i built from candidate i, so that the
\* finished collection is as long as the candidate array.
C10_OneParticlePerCandidate ==
  pc = "mc" =>
    /\ Len(genParticles) = j
    /\ j <= Len(allPart)
    /\ \A i \in 0 .. Len(genParticles) - 1 :
         At(genParticles, i).X = At(allPart, i).X
    /\ MCDone => Len(genParticles) = Len(allPart)

\* A finished pass over three candidates or more.
C10_Witness ==
  /\ MCDone
  /\ Len(allPart) >= 3
  /\ Len(genParticles) = Len(allPart)
  /\ At(genParticles, 2).X = At(allPart, 2).X

\* The emitted particles and the vertices of the collections.
Emitted == 0 .. Len(genParticles) - 1
Vertices == 0 .. Len(genVertices) - 1

\* The particles that hold vertex v as start or end vertex.
Holders(v) ==
  {i \in Emitted :
     At(genParticles, i).StartVertex = v \/ At(genParticles, i).EndVertex = v}

\* C11: while ConvertMCParticles runs and after it, every vertex of the
\* vertex collection is the start vertex or the end vertex of at least one
\* particle (taken at the end of each pass of the loop body, which attaches
\* a vertex right after creating it).
C11_NoOrphanVertex ==
  pc = "mc" => \A v \in Vertices : Holders(v) # {}

\* A finished pass with two vertices or more, one of them held by two
\* particles.
C11_Witness ==
  /\ MCDone
  /\ Len(genVertices) >= 2
  /\ \E v \in Vertices : Cardinality(Holders(v)) >= 2
  /\ \A v \in Vertices : Holders(v) # {}

\* The number of vertices one pass of the loop body may create for cand.
MayCreate(cand) ==
  (IF cand.M1 # -1 THEN 1 ELSE 0) + (IF cand.D1 # -1 THEN 1 ELSE 0)

\* C12: a particle has a start vertex exactly when its candidate has a
\* mother range and an end vertex exactly when it has a daughter range; a
\* pass of the loop body creates no vertex for a side without range,
\* whatever the vertex map holds for the candidate.
C12_VertexIffRange ==
  /\ [](pc = "mc" =>
          \A i \in Emitted :
            /\ At(genParticles, i).StartVertex # -1 <=> At(allPart, i).M1 # -1
            /\ At(genParticles, i).EndVertex # -1 <=> At(allPart, i).D1 # -1)
  /\ [][(pc = "mc" /\ j < Len(allPart)) =>
          Len(genVertices') - Len(genVertices) <= MayCreate(At(allPart, j))]_vars

\* A particle without mother range whose production slot another candidate
\* wrote, and a particle without daughter range whose decay slot another
\* candidate wrote: neither has a vertex on that side.
C12_Witness ==
  /\ MCDone
  /\ \E i \in Emitted :
       /\ At(allPart, i).M1 = -1
       /\ At(vecVtx, i).first \in 0 .. i - 1
       /\ At(genParticles, i).StartVertex = -1
  /\ \E i \in Emitted :
       /\ At(allPart, i).D1 = -1
       /\ At(vecVtx, i).second \in 0 .. i - 1
       /\ At(genParticles, i).EndVertex = -1

\* C13: a decay vertex created for candidate j (daughter range, decay slot
\* unknown) takes position and time from j's first daughter, as a created
\* production vertex takes position and time from j itself.  (Stated here
\* for the consistent genealogies only; the code breaks it already there.)
C13_DecayVertexFromDaughter ==
  [][(pc = "mc" /\ j < Len(allPart) /\ ConsistentGenealogy) =>
       LET cand == At(allPart, j)
           particle == At(genParticles', j)
       IN /\ (cand.M1 # -1 /\ At(vecVtx, j).first = -1) =>
               /\ At(genVertices', particle.StartVertex).X = cand.X
               /\ At(genVertices', particle.StartVertex).Ctau = cand.T
          /\ (cand.D1 # -1 /\ At(vecVtx, j).second = -1) =>
               /\ At(genVertices', particle.EndVertex).X = At(allPart, cand.D1).X
               /\ At(genVertices', particle.EndVertex).Ctau = At(allPart, cand.D1).T]_vars

\* C16: when the pass for candidate j takes a vertex through the vertex map,
\* the slot holds the index k < j of an emitted particle, and that particle
\* has the vertex taken: its end vertex for j's start vertex, its start
\* vertex for j's end vertex.  The collection is only accessed below its
\* size.
C16_ReuseReadsEmittedParticle ==
  /\ [][(pc = "mc" /\ j < Len(allPart)) =>
          LET cand == At(allPart, j)
              first == At(vecVtx, j).first
              second == At(vecVtx, j).second
          IN /\ (cand.M1 # -1 /\ first # -1) =>
                  /\ 0 <= first /\ first < j
                  /\ At(genParticles, first).EndVertex # -1
                  /\ At(genParticles', j).StartVertex =
                       At(genParticles, first).EndVertex
             /\ (cand.D1 # -1 /\ second # -1) =>
                  /\ 0 <= second /\ second < j
                  /\ At(genParticles, second).StartVertex # -1
                  /\ At(genParticles', j).EndVertex =
                       At(genParticles, second).StartVertex]_vars
  /\ [](pc = "mc" => \A c \in atCalls : 0 <= c.idx /\ c.idx < c.size - 1)

\* A finished pass in which one particle took its start vertex from an
\* earlier particle's end vertex and one took its end vertex from an earlier
\* particle's start vertex.
C16_Witness ==
  /\ MCDone
  /\ \E i, k \in Emitted :
       /\ k < i
       /\ [idx |-> k, size |-> i + 1] \in atCalls
       /\ At(allPart, i).M1 # -1
       /\ At(genParticles, i).StartVertex # -1
       /\ At(genParticles, i).StartVertex = At(genParticles, k).EndVertex
  /\ \E i, k \in Emitted :
       /\ k < i
       /\ [idx |-> k, size |-> i + 1] \in atCalls
       /\ At(allPart, i).D1 # -1
       /\ At(genParticles, i).EndVertex # -1
       /\ At(genParticles, i).EndVertex = At(genParticles, k).StartVertex

-----------------------------------------------------------------------------
(* Properties of ConvertParticles and ConvertPhotons.  The properties of   *)
(* one electron or photon are stated of the one just converted, object j   *)
(* built from recCand; every object is the one just converted once, and    *)
(* the loops only append to the collections.                               *)

\* The truth-particle count N and the truth indices [0, N).
NMC == Len(genParticles)
TruthIndices == 0 .. NMC - 1

\* The number of relations that link reconstructed object o to a truth
\* particle.
NumAssoc(assoc, o) ==
  Cardinality({r \in 1 .. Len(assoc) : assoc[r].Rec = o /\ assoc[r].Sim # -1})

\* First-level truth hits of a reference list: the positions whose index is
\* in [0, N).
DirectHits(refs) ==
  {k \in 1 .. Len(refs) : (refs[k].uid - 1) \in TruthIndices}

\* Second-level truth hits: the positions (k, l) where entry k is no truth
\* index and entry l of its own list is one.
CascadeHitsOf(refs) ==
  UNION {{<<k, l>> : l \in {m \in 1 .. Len(refs[k].cands) :
                              (refs[k].cands[m] - 1) \in TruthIndices}} :
         k \in (1 .. Len(refs)) \ DirectHits(refs)}

Electrons == 0 .. Len(recElectrons) - 1
Photons == 0 .. Len(recPhotons) - 1
ElectronConverted == pc = "electrons" /\ recCand # NullCand
PhotonConverted == pc = "photons" /\ recCand # NullCand

\* The bits that say "matched".  A photon with one first-level hit keeps the
\* bits it was created with, whose number may be that of Matched: they are
\* counted as matched here, so that only an object marked Unmatched with a
\* relation, or marked matched without one, breaks the cardinality rule.
MatchedBits == {"Matched", "MatchInCascade", ZeroBits}

MatchCardinality(obj, assoc, o) ==
  /\ NumAssoc(assoc, o) \in {0, 1}
  /\ NumAssoc(assoc, o) = 1 <=> At(obj, o).Bits \in MatchedBits

\* C3: every electron and photon has 0 or 1 relation linking it to a truth
\* particle, and it has 1 exactly when its bits are Matched or
\* MatchInCascade.
C3_MatchCardinality ==
  /\ \A o \in Electrons : MatchCardinality(recElectrons, recElectronsToMC, o)
  /\ \A o \in Photons : MatchCardinality(recPhotons, recPhotonsToMC, o)

\* C4: an electron whose first reference, decremented, is an index i in
\* [0, N) is Matched and its one relation points to truth particle i; the
\* later references play no part.
C4_DirectMatch ==
  ElectronConverted =>
    LET o == j
        refs == recCand.refs
    IN (Len(refs) > 0 /\ (refs[1].uid - 1) \in TruthIndices) =>
         /\ At(recElectrons, o).Bits = "Matched"
         /\ NumAssoc(recElectronsToMC, o) = 1
         /\ At(recElectronsToMC, o) = [Rec |-> o, Sim |-> refs[1].uid - 1]

\* The second electron of an array, with two references, the first a truth
\* index and the second none, is related to the first.
C4_Witness ==
  /\ ElectronConverted
  /\ j = 1
  /\ Len(recCand.refs) = 2
  /\ (recCand.refs[1].uid - 1) \in TruthIndices
  /\ (recCand.refs[2].uid - 1) \notin TruthIndices
  /\ At(recElectrons, j).Bits = "Matched"
  /\ At(recElectronsToMC, j).Sim = recCand.refs[1].uid - 1

\* C5: an electron whose first reference, decremented, is outside [0, N) is
\* Unmatched, no relation links it to a truth particle, and the truth
\* collection is not accessed with that index.
C5_DirectOutOfRange ==
  ElectronConverted =>
    LET o == j
        refs == recCand.refs
    IN (Len(refs) > 0 /\ (refs[1].uid - 1) \notin TruthIndices) =>
         /\ At(recElectrons, o).Bits = "Unmatched"
         /\ NumAssoc(recElectronsToMC, o) = 0
         /\ At(recElectronsToMC, o) = NewRelation
         /\ \A c \in atCalls : c.idx # refs[1].uid - 1

\* An electron whose first reference is no truth index while its second is
\* one is Unmatched.
C5_Witness ==
  /\ ElectronConverted
  /\ Len(recCand.refs) = 2
  /\ (recCand.refs[1].uid - 1) \notin TruthIndices
  /\ (recCand.refs[2].uid - 1) \in TruthIndices
  /\ At(recElectrons, j).Bits = "Unmatched"
  /\ At(recElectronsToMC, j) = NewRelation

\* C6: a photon with direct + cascade # 1 (no truth hit, or two or more over
\* both levels) is Unmatched and its relation is neither linked to it nor to
\* a truth particle.
C6_AmbiguousUnmatched ==
  PhotonConverted =>
    LET o == j
        refs == recCand.refs
    IN (Cardinality(DirectHits(refs)) + Cardinality(CascadeHitsOf(refs)) # 1) =>
         /\ At(recPhotons, o).Bits = "Unmatched"
         /\ At(recPhotonsToMC, o) = NewRelation

\* C7: a photon with no first-level truth hit and exactly one second-level
\* truth hit is MatchInCascade and its relation points to that truth
\* particle.
C7_CascadeMatch ==
  PhotonConverted =>
    LET o == j
        refs == recCand.refs
    IN (DirectHits(refs) = {} /\ Cardinality(CascadeHitsOf(refs)) = 1) =>
         LET kl == CHOOSE h \in CascadeHitsOf(refs) : TRUE
         IN /\ At(recPhotons, o).Bits = "MatchInCascade"
            /\ NumAssoc(recPhotonsToMC, o) = 1
            /\ At(recPhotonsToMC, o) =
                 [Rec |-> o, Sim |-> refs[kl[1]].cands[kl[2]] - 1]

\* A photon with two references, neither a truth index, whose lists hold one
\* truth index between them, is MatchInCascade.
C7_Witness ==
  /\ PhotonConverted
  /\ Len(recCand.refs) = 2
  /\ DirectHits(recCand.refs) = {}
  /\ Cardinality(CascadeHitsOf(recCand.refs)) = 1
  /\ At(recPhotons, j).Bits = "MatchInCascade"
  /\ At(recPhotonsToMC, j).Sim \in TruthIndices

C14_MatchFailureIsLocal ==
  /\ [](/\ pc # "aborted"
        /\ pc \in {"photons", "done"} => Len(recElectrons) = nElectrons
        /\ pc = "done" => Len(recPhotons) = nPhotons
        /\ Len(recElectronsToMC) = Len(recElectrons)
        /\ Len(recPhotonsToMC) = Len(recPhotons)
        /\ \A o \in Electrons : At(recElectrons, o).Px = RecPx(o)
        /\ \A o \in Photons : At(recPhotons, o).Px = RecPx(o))
  /\ [][/\ \A o \in Electrons :
             /\ At(recElectrons', o) = At(recElectrons, o)
             /\ At(recElectronsToMC', o) = At(recElectronsToMC, o)
        /\ \A o \in Photons :
             /\ At(recPhotons', o) = At(recPhotons, o)
             /\ At(recPhotonsToMC', o) = At(recPhotonsToMC, o)]_vars

\* C15: in every event the builder has gone over the whole candidate array
\* before a resolver step runs.  While the builder runs no electron or
\* photon is converted; it starts from empty particle and vertex
\* collections and a vertex map of unknown slots; and while the resolver
\* runs the truth particles are exactly the particles of this event's
\* candidates, so that the count an electron is matched against is the
\* candidate count of the event.
C15_BuilderBeforeResolver ==
  /\ pc = "mc" =>
       /\ recElectrons = <<>> /\ recElectronsToMC = <<>>
       /\ recPhotons = <<>> /\ recPhotonsToMC = <<>>
       /\ Len(genParticles) = j
  /\ (pc = "mc" /\ j = 0) =>
       /\ genParticles = <<>>
       /\ genVertices = <<>>
       /\ vecVtx = InitVecVtx(Len(allPart))
  /\ pc \in {"electrons", "photons", "done"} =>
       /\ Len(genParticles) = Len(allPart)
       /\ \A i \in Emitted :
            /\ At(genParticles, i).X = At(allPart, i).X
            /\ At(genParticles, i).Bits = MCBits(At(allPart, i))
            /\ At(genParticles, i).StartVertex < Len(genVertices)
            /\ At(genParticles, i).EndVertex < Len(genVertices)
       /\ \A v \in Vertices : Holders(v) # {}
       /\ Len(recElectrons) <= nElectrons
       /\ Len(recPhotons) <= nPhotons
  /\ (ElectronConverted /\ Len(recCand.refs) > 0) =>
       (At(recElectrons, j).Bits = "Matched"
          <=> recCand.refs[1].uid - 1 < Len(allPart))

\* The second event: its builder made one particle with a vertex and the
\* resolver matched an electron against that one particle.
C15_Witness ==
  /\ eventCounter = 2
  /\ ElectronConverted
  /\ Len(allPart) = 1
  /\ Len(genParticles) = 1
  /\ Len(genVertices) >= 1
  /\ Len(recCand.refs) > 0
  /\ At(recElectrons, j).Bits = "Matched"

-----------------------------------------------------------------------------
(* Properties of PapasAlg::execute                                         *)

Tools == 0 .. nTools - 1
Called(op, t) ==
  \E i \in 1 .. Len(toolCalls) : toolCalls[i] = [op |-> op, tool |-> t]
ClearedAll == \A t \in Tools : Called("clear", t)
ClearedNone == \A t \in Tools : ~Called("clear", t)

\* An execute call has ended: it returned or an exception left it.
ExecuteEnded == ppc \in {"idle", "propagated"} /\ m_eventno > 0

\* The call that threw, when one did.
ThrownFrom(ops) ==
  /\ thrown # "none"
  /\ toolCalls[Len(toolCalls)].op \in ops

\* createOutputStructures was called on all tools before any run.
CreateBeforeRun ==
  \A i \in 1 .. Len(toolCalls) :
    toolCalls[i].op = "run" =>
      \A t \in Tools :
        \E c \in 1 .. i - 1 :
          toolCalls[c] = [op |-> "createOutputStructures", tool |-> t]

\* C17 as stated: createOutputStructures on all tools before any run;
\* clear() is called on the tools exactly when no tool threw in the call; a
\* throw from createOutputStructures or run makes execute return, SUCCESS
\* for a string and FAILURE for a std::exception, without any clear(), the
\* event number having advanced by one.
C17_ClearIffNoThrow ==
  /\ CreateBeforeRun
  /\ ExecuteEnded => (ClearedAll <=> thrown = "none")
  /\ ThrownFrom({"createOutputStructures", "run"}) =>
       /\ ppc = "idle"
       /\ thrown = "string" => status = "SUCCESS"
       /\ thrown = "exception" => status = "FAILURE"
       /\ ClearedNone
       /\ m_eventno = peventNo + 1

\* C17 amended: createOutputStructures on all tools before any run; clear()
\* is called on a tool only when every createOutputStructures and run of
\* the call returned, and on all tools exactly when nothing was thrown or
\* the clear() of the last tool threw; whichever call throws, execute ends
\* there, returning SUCCESS for a std::string and FAILURE for a
\* std::exception and letting anything else propagate; without a throw it
\* returns SUCCESS; the event number has advanced by one in every case.
C17_ClearOnlyAfterCreateAndRun ==
  /\ CreateBeforeRun
  /\ ThrownFrom({"createOutputStructures", "run"}) => ClearedNone
  /\ ExecuteEnded =>
       (ClearedAll <=> \/ thrown = "none"
                       \/ ThrownFrom({"clear"}) /\ iTool = nTools - 1)
  /\ thrown = "string" => ppc = "idle" /\ status = "SUCCESS"
  /\ thrown = "exception" => ppc = "idle" /\ status = "FAILURE"
  /\ thrown = "other" => ppc = "propagated" /\ status = "none"
  /\ (ExecuteEnded /\ thrown = "none") => status = "SUCCESS"
  /\ ppc = "propagated" => thrown = "other"
  /\ m_eventno > 0 => m_eventno = peventNo + 1

\* The second execute call over two tools: both structures created, the run
\* of the second tool threw a std::exception, execute returned FAILURE and
\* no tool was cleared.
C17_Witness ==
  /\ ExecuteEnded
  /\ nTools = 2
  /\ m_eventno = 2
  /\ thrown = "exception"
  /\ toolCalls = <<[op |-> "createOutputStructures", tool |-> 0],
                  [op |-> "createOutputStructures", tool |-> 1],
                  [op |-> "run", tool |-> 0],
                  [op |-> "run", tool |-> 1]>>
  /\ status = "FAILURE"
  /\ ClearedNone

====
